---------------------------- MODULE Spec2Model ----------------------------
(***************************************************************************)
(* A model of cookie-classify's page-injected scripts and of its           *)
(* clickstream aggregation notebook:                                       *)
(*   injections/onetrust.js            the Consent State Injector          *)
(*   injections/clickable-elements.js  the Element Locator (and the other  *)
(*                                     copy of it, unnamed/part_000)       *)
(*   clickstream-analysis.ipynb        the Aggregation Layer               *)
(*                                                                         *)
(* A JavaScript string is a sequence of tokens.  A token is one character, *)
(* or an atom standing for a run of characters that none of the modelled   *)
(* operations looks into ("groups", "NotLandingPage", "%2C", ...).         *)
(***************************************************************************)
EXTENDS Integers, Sequences, FiniteSets, TLC

VARIABLES
    \* ---- onetrust.js: the page the script is injected into
    elements,             \* the elements matched by *[id^="ot-header-id-"], in document order
    cookieJar,            \* document.cookie: name -> [present, value (as stored)]
    OneTrust,             \* TRUE iff window.OneTrust is defined
    \* ---- onetrust.js: the script's globals and what a run leaves behind
    injectorPc,           \* "ready" | "done"
    OptanonConsent,       \* line 153: what Cookies.get('OptanonConsent') returned
    CookieGroupIDs,       \* line 154: what getCookieGroupIDs() returned
    outcome,              \* "none" | "completed" | "TypeError" | "ReferenceError"
    msg,                  \* the global msg (the last error message assigned)
    warnings,             \* the ERROR lines written with console.warn, in order
    groupsObject,         \* the global groupsObject of disableOnlyTracking
    OptanonConsentObject, \* the global OptanonConsentObject
    cookieWrites,         \* the Cookies.remove / Cookies.set calls made, in order
    \* ---- clickable-elements.js
    dom,                  \* the document's elements in document order
    windowDebug,          \* what the identifier debug resolves to in the page
    locatorPc,            \* "ready" | "done"
    locatorScript,        \* which copy of the script ran
    locatorOutcome,       \* "none" | "returned" | "ReferenceError"
    selectors,            \* the array the script returns
    \* ---- clickstream-analysis.ipynb
    website,              \* the clickstream directories of the website being aggregated
    aggPc,                \* "website" | "clickstream" | "compare" | "finish" | "done"
    csIndex,              \* how many clickstreams of the website have been taken
    iter,                 \* iterations of range(10) run for the current clickstream
    total_actions,
    clickstream_sum,
    compared,             \* action indices whose pair was handed to ImageShingle.compare
    perClickstream,       \* [total_actions, clickstream_sum] of every finished clickstream
    sample_size,
    total_clickstreams,
    website_sum,
    rows_list

injectorVars == <<elements, cookieJar, OneTrust, injectorPc, OptanonConsent, CookieGroupIDs,
                  outcome, msg, warnings, groupsObject, OptanonConsentObject, cookieWrites>>
locatorVars == <<dom, windowDebug, locatorPc, locatorScript, locatorOutcome, selectors>>
aggVars == <<website, aggPc, csIndex, iter, total_actions, clickstream_sum, compared,
             perClickstream, sample_size, total_clickstreams, website_sum, rows_list>>
vars == <<injectorVars, locatorVars, aggVars>>

(***************************************************************************)
(* Bounds of the model.                                                    *)
(***************************************************************************)
MaxElems == 3        \* category-header elements on a page
MaxLabelLen == 3     \* length of the exhaustively enumerated labels
MaxPairs == 3        \* key=value pairs in a consent cookie body
MaxContent == 3      \* elements of a document below its BODY
NumIdx == 11         \* screenshots all_cookies-0.png .. all_cookies-(NumIdx-1).png may exist
MaxClickstreams == 3 \* clickstream directories of a website

(***************************************************************************)
(* Strings.                                                                *)
(***************************************************************************)
RECURSIVE Split(_, _)
\* String.prototype.split with a one-character separator: always at least one part.
Split(s, d) ==
    IF \A i \in 1..Len(s) : s[i] # d
    THEN <<s>>
    ELSE LET i == CHOOSE j \in 1..Len(s) : s[j] = d /\ \A h \in 1..(j - 1) : s[h] # d
         IN  <<SubSeq(s, 1, i - 1)>> \o Split(SubSeq(s, i + 1, Len(s)), d)

RECURSIVE Join(_, _)
\* Array.prototype.join
Join(parts, d) ==
    IF Len(parts) = 0 THEN <<>>
    ELSE IF Len(parts) = 1 THEN parts[1]
    ELSE parts[1] \o d \o Join(Tail(parts), d)

\* String.prototype.includes
Includes(s, w) == \E i \in 0..(Len(s) - Len(w)) : SubSeq(s, i + 1, i + Len(w)) = w

UpperChars == <<"A", "B", "C", "D", "E", "F", "G", "H", "I", "J", "K", "L", "M",
                "N", "O", "P", "Q", "R", "S", "T", "U", "V", "W", "X", "Y", "Z">>
LowerChars == <<"a", "b", "c", "d", "e", "f", "g", "h", "i", "j", "k", "l", "m",
                "n", "o", "p", "q", "r", "s", "t", "u", "v", "w", "x", "y", "z">>

\* String.prototype.toLowerCase
toLowerCase(s) ==
    [i \in 1..Len(s) |->
        IF \E j \in 1..26 : UpperChars[j] = s[i]
        THEN LowerChars[CHOOSE j \in 1..26 : UpperChars[j] = s[i]]
        ELSE s[i]]

DigitChars == <<"0", "1", "2", "3", "4", "5", "6", "7", "8", "9">>
IsDigit(c) == \E j \in 1..10 : DigitChars[j] = c
DigitValue(c) == (CHOOSE j \in 1..10 : DigitChars[j] = c) - 1

RECURSIVE DigitsToNat(_)
DigitsToNat(s) ==
    IF Len(s) = 0 THEN 0
    ELSE 10 * DigitsToNat(SubSeq(s, 1, Len(s) - 1)) + DigitValue(s[Len(s)])

RECURSIVE NatToDigits(_)
NatToDigits(n) ==
    IF n < 10 THEN <<DigitChars[n + 1]>>
    ELSE NatToDigits(n \div 10) \o <<DigitChars[(n % 10) + 1]>>

(***************************************************************************)
(* JavaScript values and plain objects.                                    *)
(***************************************************************************)
Str(s) == [t |-> "string", s |-> s, n |-> 0]
Num(n) == [t |-> "number", s |-> <<>>, n |-> n]
NaN == [t |-> "NaN", s |-> <<>>, n |-> 0]
Undefined == [t |-> "undefined", s |-> <<>>, n |-> 0]
Inherited == [t |-> "inherited", s |-> <<>>, n |-> 0]

\* ToString, as a template literal or Number.prototype.toString applies it
JsToString(v) ==
    CASE v.t = "string" -> v.s
      [] v.t = "number" -> IF v.n < 0 THEN <<"-">> \o NatToDigits(-v.n) ELSE NatToDigits(v.n)
      [] v.t = "NaN" -> <<"NaN">>
      [] OTHER -> <<"undefined">>

\* parseInt(v) with no radix: ToString, leading blanks skipped, an optional sign,
\* then the longest run of decimal digits; NaN when there is no digit.
parseInt(v) ==
    LET s0 == JsToString(v)
        nb == IF \E i \in 1..Len(s0) : s0[i] # " "
              THEN CHOOSE i \in 1..Len(s0) : s0[i] # " " /\ \A h \in 1..(i - 1) : s0[h] = " "
              ELSE Len(s0) + 1
        s1 == SubSeq(s0, nb, Len(s0))
        neg == Len(s1) > 0 /\ s1[1] = "-"
        s2 == IF Len(s1) > 0 /\ s1[1] \in {"-", "+"} THEN Tail(s1) ELSE s1
        nd == IF \E i \in 1..Len(s2) : ~IsDigit(s2[i])
              THEN (CHOOSE i \in 1..Len(s2) : ~IsDigit(s2[i]) /\ \A h \in 1..(i - 1) : IsDigit(s2[h])) - 1
              ELSE Len(s2)
    IN  IF nd = 0 THEN NaN
        ELSE Num(IF neg THEN -DigitsToNat(SubSeq(s2, 1, nd)) ELSE DigitsToNat(SubSeq(s2, 1, nd)))

\* the + of parseInt(...) + 1
PlusOne(v) == IF v.t = "number" THEN Num(v.n + 1) ELSE NaN

\* Names every plain object inherits from Object.prototype.
ObjectPrototypeKeys ==
    {<<"constructor">>, <<"toString">>, <<"valueOf">>, <<"hasOwnProperty">>,
     <<"isPrototypeOf">>, <<"propertyIsEnumerable">>, <<"toLocaleString">>}

\* A plain object is the sequence of its own properties in for-in order.
EmptyObject == <<>>
HasOwn(o, k) == \E i \in 1..Len(o) : o[i].k = k
\* the in operator: own or inherited
In(o, k) == HasOwn(o, k) \/ k \in ObjectPrototypeKeys
\* o[k]
Get(o, k) ==
    IF HasOwn(o, k) THEN o[CHOOSE i \in 1..Len(o) : o[i].k = k].v
    ELSE IF k \in ObjectPrototypeKeys THEN Inherited
    ELSE Undefined

\* A canonical array index: integer-like keys are enumerated first, ascending.
IsArrayIndex(k) ==
    /\ Len(k) >= 1
    /\ \A i \in 1..Len(k) : IsDigit(k[i])
    /\ (Len(k) = 1 \/ k[1] # "0")

\* o[k] = v
Set(o, k, v) ==
    IF HasOwn(o, k)
    THEN [i \in 1..Len(o) |-> IF o[i].k = k THEN [k |-> k, v |-> v] ELSE o[i]]
    ELSE IF IsArrayIndex(k)
    THEN LET before == Cardinality({i \in 1..Len(o) :
                           IsArrayIndex(o[i].k) /\ DigitsToNat(o[i].k) < DigitsToNat(k)})
         IN  SubSeq(o, 1, before) \o <<[k |-> k, v |-> v]>> \o SubSeq(o, before + 1, Len(o))
    ELSE Append(o, [k |-> k, v |-> v])

Keys(o) == {o[i].k : i \in 1..Len(o)}

(***************************************************************************)
(* js-cookie v3.0.5 (the minified library at the top of onetrust.js).      *)
(***************************************************************************)
\* The converter's write: encodeURIComponent, then the escapes of
\* # $ & + / : < = > ? @ [ ] ^ ` { | } undone.  Of the modelled tokens "," " "
\* ";" "%" and the double quote stay escaped; "=", "&" and ":" are written as is.
WriteToken(c) ==
    CASE c = "," -> "%2C"
      [] c = " " -> "%20"
      [] c = ";" -> "%3B"
      [] c = "%" -> "%25"
      [] c = "\"" -> "%22"
      [] OTHER -> c
converterWrite(s) == [i \in 1..Len(s) |-> WriteToken(s[i])]

\* The converter's read: a value in double quotes loses them, then every %XX is
\* decoded (decodeURIComponent).
ReadToken(c) ==
    CASE c = "%2C" -> ","
      [] c = "%20" -> " "
      [] c = "%3B" -> ";"
      [] c = "%25" -> "%"
      [] c = "%22" -> "\""
      [] c = "%3D" -> "="
      [] c = "%26" -> "&"
      [] c = "%3A" -> ":"
      [] OTHER -> c
converterRead(s) ==
    LET e == IF Len(s) > 0 /\ s[1] = "\"" THEN SubSeq(s, 2, Len(s) - 1) ELSE s
    IN  [i \in 1..Len(e) |-> ReadToken(e[i])]

CookieNames == {"OptanonConsent", "OptanonAlertBoxClosed"}
NoCookie == [present |-> FALSE, value |-> <<>>]

\* Cookies.get(name) giving the empty string for a cookie that is not there
CookiesGetEmpty(jar, name) ==
    IF jar[name].present THEN Str(converterRead(jar[name].value)) ELSE Str(<<>>)

\* Cookies.get(name): undefined when document.cookie holds no such cookie
CookiesGet(jar, name) ==
    IF jar[name].present THEN Str(converterRead(jar[name].value)) ELSE Undefined

\* Cookies.set(name, value, attributes), on document.cookie
CookiesSet(jar, name, value) ==
    [jar EXCEPT ![name] = [present |-> TRUE, value |-> converterWrite(value)]]

\* Cookies.remove(name, attributes): set with expires -1
CookiesRemove(jar, name) == [jar EXCEPT ![name] = NoCookie]

(***************************************************************************)
(* onetrust.js                                                             *)
(***************************************************************************)
HeaderPrefix == "ot-header-id-"

\* element.id.split('ot-header-id-')[1]
OnetrustId(element) == Split(element.id, HeaderPrefix)[2]

RECURSIVE ScanHeaders(_, _, _)
\* the forEach of getCookieGroupIDs, from the state [success, categories]
ScanHeaders(els, success, categories) ==
    IF Len(els) = 0 THEN [success |-> success, categories |-> categories]
    ELSE LET onetrust_id == OnetrustId(els[1])
             category == els[1].innerText
             conflict == In(categories, onetrust_id)
                         /\ Get(categories, onetrust_id) # Str(category)
         IN  ScanHeaders(Tail(els),
                         IF conflict THEN FALSE ELSE success,
                         Set(categories, onetrust_id, Str(category)))

\* getCookieGroupIDs(): [null |-> TRUE] stands for the null it returns on a conflict
getCookieGroupIDs(els) ==
    LET r == ScanHeaders(els, TRUE, EmptyObject)
    IN  IF r.success THEN [null |-> FALSE, obj |-> r.categories]
        ELSE [null |-> TRUE, obj |-> EmptyObject]

\* decodeString(str), str a string
decodeString(str) ==
    LET keyValuePairs == Split(str, "&")
        Pair(i) == Split(keyValuePairs[i], "=")
        F[i \in 0..Len(keyValuePairs)] ==
            IF i = 0 THEN EmptyObject
            ELSE Set(F[i - 1], Pair(i)[1],
                     IF Len(Pair(i)) >= 2 THEN Str(Pair(i)[2]) ELSE Undefined)
    IN  F[Len(keyValuePairs)]

\* encodeObject(obj)
encodeObject(obj) ==
    Join([i \in 1..Len(obj) |-> obj[i].k \o <<"=">> \o JsToString(obj[i].v)], <<"&">>)

\* encodeGroups(obj)
encodeGroups(obj) ==
    Join([i \in 1..Len(obj) |-> obj[i].k \o <<":">> \o JsToString(obj[i].v)], <<",">>)

trackingCorpus == {<<"t", "r", "a", "c", "k">>, <<"t", "a", "r", "g", "e", "t">>,
                   <<"a", "d", "v", "e", "r", "t">>}
trackingCorpusExact == {<<"a", "d">>, <<"a", "d", "s">>}

\* IsTracking with ad and ads looked for as substrings, like the corpus
IsTrackingAdAnywhere(label) ==
    LET category == toLowerCase(label)
    IN  \E word \in trackingCorpus \cup trackingCorpusExact : Includes(category, word)

\* the body of disableOnlyTracking's loop: the flag tracking for one label
IsTracking(label) ==
    LET category == toLowerCase(label)
        words == Split(category, " ")
    IN  \/ \E i \in 1..Len(words) : words[i] \in trackingCorpusExact
        \/ \E word \in trackingCorpus : Includes(category, word)

\* the groupsObject disableOnlyTracking builds from cookieMapping
\* (for ... in null runs no iteration)
BuildGroupsObject(cookieMapping) ==
    LET m == IF cookieMapping.null THEN EmptyObject ELSE cookieMapping.obj
        F[i \in 0..Len(m)] ==
            IF i = 0 THEN EmptyObject
            ELSE Set(F[i - 1], m[i].k, IF IsTracking(m[i].v.s) THEN Num(0) ELSE Num(1))
    IN  F[Len(m)]

\* disableOnlyTracking()
disableOnlyTracking(els) == encodeGroups(BuildGroupsObject(getCookieGroupIDs(els)))

MsgNoCookie == "OptanonConsent cookie not found"
MsgConflict == "Conflicting OneTrust IDs found"
MsgNoApi == "OneTrust API not found"

\* the cookie domain: `.${OneTrust.GetDomainData().Domain}`
CookieDomain == <<".", "Domain">>
\* (new Date).toISOString()
IsoDate == <<"ISODate">>

\* lines 153-182: the three checks; each only warns and assigns msg
RunChecks(consent, ids, api) ==
    (IF consent.t = "undefined" THEN <<MsgNoCookie>> ELSE <<>>)
    \o (IF ids.null THEN <<MsgConflict>> ELSE <<>>)
    \o (IF ~api THEN <<MsgNoApi>> ELSE <<>>)

\* lines 184-191: the object the script commits
RewriteConsent(consent, els) ==
    LET decoded == decodeString(consent.s)
        g == Set(decoded, <<"groups">>, Str(disableOnlyTracking(els)))
        c == Set(g, <<"interactionCount">>,
                 Str(JsToString(PlusOne(parseInt(Get(g, <<"interactionCount">>))))))
    IN  Set(c, <<"landingPath">>, Str(<<"NotLandingPage">>))

\* One run of onetrust.js (lines 153-200), as injected into the page.
RunOnetrust ==
    /\ injectorPc = "ready"
    /\ LET consent == CookiesGet(cookieJar, "OptanonConsent")
           ids == getCookieGroupIDs(elements)
           warned == RunChecks(consent, ids, OneTrust)
           obj == RewriteConsent(consent, elements)
           jar1 == CookiesRemove(cookieJar, "OptanonConsent")
           jar2 == CookiesSet(jar1, "OptanonConsent", encodeObject(obj))
           jar3 == CookiesSet(jar2, "OptanonAlertBoxClosed", IsoDate)
       IN  /\ OptanonConsent' = consent
           /\ CookieGroupIDs' = ids
           /\ warnings' = warned
           /\ msg' = IF Len(warned) = 0 THEN msg ELSE warned[Len(warned)]
           /\ IF consent.t = "undefined"
              THEN \* line 184: decodeString(undefined) calls undefined.split
                   /\ outcome' = "TypeError"
                   /\ UNCHANGED <<groupsObject, OptanonConsentObject, cookieJar, cookieWrites>>
              ELSE /\ groupsObject' = BuildGroupsObject(ids)
                   /\ OptanonConsentObject' = obj
                   /\ IF ~OneTrust
                      THEN \* line 194: OneTrust is not defined
                           /\ outcome' = "ReferenceError"
                           /\ UNCHANGED <<cookieJar, cookieWrites>>
                      ELSE /\ outcome' = "completed"
                           /\ cookieJar' = jar3
                           /\ cookieWrites' =
                                <<[op |-> "remove", name |-> "OptanonConsent",
                                   value |-> <<>>, domain |-> CookieDomain],
                                  [op |-> "set", name |-> "OptanonConsent",
                                   value |-> jar2["OptanonConsent"].value, domain |-> CookieDomain],
                                  [op |-> "set", name |-> "OptanonAlertBoxClosed",
                                   value |-> jar3["OptanonAlertBoxClosed"].value,
                                   domain |-> CookieDomain]>>
    /\ injectorPc' = "done"
    /\ UNCHANGED <<elements, OneTrust>>
    /\ UNCHANGED <<locatorVars, aggVars>>

(***************************************************************************)
(* clickable-elements.js and unnamed/part_000                              *)
(*                                                                         *)
(* An element is [parent, tagName, id, onclick, cursor]: parent is the     *)
(* index of its parent element, 0 for the document; id is the empty string *)
(* when the element has none; onclick is TRUE iff element.onclick != null; *)
(* cursor is window.getComputedStyle(element).cursor.                      *)
(***************************************************************************)
\* the include flag of an item (line 23; part_000 line 22)
include(element) ==
    \/ element.tagName = "BUTTON"
    \/ element.tagName = "A"
    \/ element.onclick
    \/ element.cursor = "pointer"

\* the item the map makes of an element (its rect and text are not modelled)
Item(d, i) == [element |-> i, include |-> include(d[i])]

\* items: querySelectorAll('*') mapped, then filtered by include, in document order
Items(d) == SelectSeq([i \in 1..Len(d) |-> Item(d, i)], LAMBDA item : item.include)

\* fullPath's inner loop with the count started at 0
NthChildFromZero(d, el) == Cardinality({j \in 1..(el - 1) : d[j].parent = d[el].parent})

\* the c of fullPath's inner loop: 1 + the number of previous element siblings
NthChild(d, el) == 1 + Cardinality({j \in 1..(el - 1) : d[j].parent = d[el].parent})

RECURSIVE PathNames(_, _)
\* the array names of fullPath when its loop ends, from the walk starting at el
PathNames(d, el) ==
    IF el = 0 THEN <<>>
    ELSE IF d[el].id # <<>> THEN <<(<<"#">> \o d[el].id)>>
    ELSE PathNames(d, d[el].parent)
         \o <<(IF d[el].parent = 0
               THEN <<d[el].tagName>>
               ELSE <<d[el].tagName, ":nth-child(">> \o NatToDigits(NthChild(d, el)) \o <<")">>)>>

\* fullPath(el)
fullPath(d, el) == Join(PathNames(d, el), <<" > ">>)

\* lines 74-77 (part_000 46-49)
BuildSelectors(d) == [i \in 1..Len(Items(d)) |-> fullPath(d, Items(d)[i].element)]

\* document.body: the BODY child of the document element
BodyOf(d) == CHOOSE i \in 1..Len(d) : d[i].tagName = "BODY" /\ d[i].parent = 1

\* the overlay the debug branch appends to document.body for every item
Overlay(d) == [parent |-> BodyOf(d), tagName |-> "DIV", id |-> <<>>,
               onclick |-> FALSE, cursor |-> "auto"]

\* One run of clickable-elements.js.  Line 1 assigns DEBUG; line 38 reads debug,
\* which is whatever the page defines under that name.
RunClickableElements ==
    /\ locatorPc = "ready"
    /\ locatorPc' = "done"
    /\ locatorScript' = "clickable-elements.js"
    /\ IF windowDebug = "undefined"
       THEN /\ locatorOutcome' = "ReferenceError"
            /\ UNCHANGED <<dom, selectors>>
       ELSE /\ locatorOutcome' = "returned"
            /\ dom' = IF windowDebug = "truthy"
                      THEN dom \o [i \in 1..Len(Items(dom)) |-> Overlay(dom)]
                      ELSE dom
            /\ selectors' = [i \in 1..Len(Items(dom)) |-> fullPath(dom', Items(dom)[i].element)]
    /\ UNCHANGED windowDebug
    /\ UNCHANGED <<injectorVars, aggVars>>

\* One run of the copy in unnamed/part_000, which has no debug branch.
RunClickableElementsPart000 ==
    /\ locatorPc = "ready"
    /\ locatorPc' = "done"
    /\ locatorScript' = "part_000"
    /\ locatorOutcome' = "returned"
    /\ selectors' = BuildSelectors(dom)
    /\ UNCHANGED <<dom, windowDebug>>
    /\ UNCHANGED <<injectorVars, aggVars>>

(***************************************************************************)
(* clickstream-analysis.ipynb, the aggregation cell.                       *)
(*                                                                         *)
(* A clickstream directory is [all, no]: the indices i for which           *)
(* all_cookies-i.png, no_cookies-i.png is a file.  A similarity is the     *)
(* fraction [num, den] in lowest terms.                                    *)
(***************************************************************************)
RangeLimit == 10

RECURSIVE GCD(_, _)
GCD(a, b) == IF b = 0 THEN a ELSE GCD(b, a % b)
Frac(n, d) == LET g == GCD(n, d) IN [num |-> n \div g, den |-> d \div g]
FracAdd(x, y) == Frac(x.num * y.den + y.num * x.den, x.den * y.den)
\* line 124 without its division: website_sum taken for the mean
FracKeep(x, k) == x
FracDivInt(x, k) == Frac(x.num, x.den * k)
Zero == [num |-> 0, den |-> 1]

\* what ImageShingle.compare returns for a pair of screenshots
Scores == {0, 1}

\* line 105 with or in the place of and
EitherExists(clickstream, i) == i \in clickstream.all \/ i \in clickstream.no

\* line 105: os.path.isfile(all_cookies_path) and os.path.isfile(no_cookies_path)
BothExist(clickstream, i) == i \in clickstream.all /\ i \in clickstream.no

\* line 115 with = in the place of +=
AddActionsOverwrite(size, actions) == actions

\* line 115 counting the clickstream in the place of its actions
AddOneAction(size, actions) == size + 1

\* line 115: sample_size += total_actions
AddActions(size, actions) == size + actions

\* lines 88-94: a website's directory is taken
StartWebsite ==
    /\ aggPc = "website"
    /\ sample_size' = 0
    /\ total_clickstreams' = 0
    /\ website_sum' = Zero
    /\ csIndex' = 0
    /\ perClickstream' = <<>>
    /\ aggPc' = "clickstream"
    /\ UNCHANGED <<website, iter, total_actions, clickstream_sum, compared, rows_list>>
    /\ UNCHANGED <<injectorVars, locatorVars>>

\* lines 96-99: the next clickstream of the website
StartClickstream ==
    /\ aggPc = "clickstream"
    /\ csIndex < Len(website.clickstreams)
    /\ csIndex' = csIndex + 1
    /\ total_actions' = 0
    /\ clickstream_sum' = 0
    /\ iter' = 0
    /\ compared' = {}
    /\ aggPc' = "compare"
    /\ UNCHANGED <<website, perClickstream, sample_size, total_clickstreams, website_sum, rows_list>>
    /\ UNCHANGED <<injectorVars, locatorVars>>

\* lines 101-113: one iteration of for _ in range(10)
CompareStep ==
    /\ aggPc = "compare"
    /\ IF BothExist(website.clickstreams[csIndex], total_actions)
       THEN /\ \E score \in Scores : clickstream_sum' = clickstream_sum + score
            /\ total_actions' = total_actions + 1
            /\ compared' = compared \cup {total_actions}
            /\ iter' = iter + 1
            /\ aggPc' = IF iter + 1 = RangeLimit THEN "finish" ELSE "compare"
       ELSE /\ aggPc' = "finish"
            /\ UNCHANGED <<clickstream_sum, total_actions, compared, iter>>
    /\ UNCHANGED <<website, csIndex, perClickstream, sample_size, total_clickstreams,
                   website_sum, rows_list>>
    /\ UNCHANGED <<injectorVars, locatorVars>>

\* lines 115-121: the clickstream's totals go into the website's
FinishClickstream ==
    /\ aggPc = "finish"
    /\ sample_size' = AddActions(sample_size, total_actions)
    /\ IF total_actions # 0
       THEN /\ website_sum' = FracAdd(website_sum, Frac(clickstream_sum, total_actions))
            /\ total_clickstreams' = total_clickstreams + 1
       ELSE UNCHANGED <<website_sum, total_clickstreams>>
    /\ perClickstream' = Append(perClickstream,
                                [total_actions |-> total_actions,
                                 clickstream_sum |-> clickstream_sum])
    /\ aggPc' = "clickstream"
    /\ UNCHANGED <<website, csIndex, iter, total_actions, clickstream_sum, compared, rows_list>>
    /\ UNCHANGED <<injectorVars, locatorVars>>

\* lines 123-131: the website's row
EmitRow ==
    /\ aggPc = "clickstream"
    /\ csIndex = Len(website.clickstreams)
    /\ rows_list' = IF total_clickstreams # 0
                    THEN Append(rows_list,
                                [website |-> website.name,
                                 website_similarity |-> FracDivInt(website_sum, total_clickstreams),
                                 sample_size |-> sample_size])
                    ELSE rows_list
    /\ aggPc' = "done"
    /\ UNCHANGED <<website, csIndex, iter, total_actions, clickstream_sum, compared,
                   perClickstream, sample_size, total_clickstreams, website_sum>>
    /\ UNCHANGED <<injectorVars, locatorVars>>

(***************************************************************************)
(* The pages, cookies and crawl directories the model runs on.             *)
(***************************************************************************)
L_StrictlyNecessary == <<"S", "t", "r", "i", "c", "t", "l", "y", " ", "N", "e", "c", "e", "s", "s", "a", "r", "y", " ", "C", "o", "o", "k", "i", "e", "s">>
L_Targeting == <<"T", "a", "r", "g", "e", "t", "i", "n", "g", " ", "C", "o", "o", "k", "i", "e", "s">>
L_Performance == <<"P", "e", "r", "f", "o", "r", "m", "a", "n", "c", "e", " ", "C", "o", "o", "k", "i", "e", "s">>
L_Advertising == <<"A", "d", "v", "e", "r", "t", "i", "s", "i", "n", "g">>
L_Tracking == <<"C", "r", "o", "s", "s", "-", "s", "i", "t", "e", " ", "T", "r", "a", "c", "k", "i", "n", "g">>
L_AdsUpper == <<"A", "D", "S">>
L_SocialAd == <<"S", "o", "c", "i", "a", "l", " ", "A", "d", " ", "C", "o", "o", "k", "i", "e", "s">>
L_Loading == <<"L", "o", "a", "d", "i", "n", "g", " ", "D", "a", "t", "a">>
L_AdsComma == <<"A", "d", "s", ",", " ", "M", "e", "d", "i", "a">>
L_Shadow == <<"S", "h", "a", "d", "o", "w", " ", "D", "O", "M">>

LabelAlphabet == {"a", "d", "s", " ", "A", "x"}
ShortLabels == UNION {[1..n -> LabelAlphabet] : n \in 0..MaxLabelLen}
CuratedLabels == {L_StrictlyNecessary, L_Targeting, L_Performance, L_Advertising, L_Tracking,
                  L_AdsUpper, L_SocialAd, L_Loading, L_AdsComma, L_Shadow}
CoreLabels == {L_StrictlyNecessary, L_Targeting}

HeaderElement(suffix, label) == [id |-> <<HeaderPrefix>> \o suffix, innerText |-> label]
Suffixes == {<<"1">>, <<"C0002">>, <<"constructor">>}
OrderElements == {HeaderElement(x, l) : x \in Suffixes, l \in CoreLabels}
OrderDoms == UNION {[1..n -> OrderElements] : n \in 0..MaxElems}
LabelDoms == {<<HeaderElement(<<"1">>, l)>> : l \in ShortLabels \cup CuratedLabels}
AllDoms == OrderDoms \cup LabelDoms
CoreDoms == {<<>>,
             <<HeaderElement(<<"1">>, L_StrictlyNecessary), HeaderElement(<<"2">>, L_Targeting)>>,
             <<HeaderElement(<<"1">>, L_Targeting), HeaderElement(<<"1">>, L_StrictlyNecessary)>>}

\* key=value pairs of a consent cookie, as document.cookie stores them
RawPairs ==
    {<<"interactionCount", "=", "1">>,
     <<"interactionCount", "=", "9">>,
     <<"landingPath", "=", "p">>,
     <<"groups", "=", "1", ":", "1", "%2C", "2", ":", "1">>,
     <<"k", "=", "v">>,
     <<"k", "=", "v", "%3D", "w">>,
     <<"k">>}
RawBodies == {Join(ps, <<"&">>) : ps \in UNION {[1..n -> RawPairs] : n \in 0..MaxPairs}}
JarWith(body) == [name \in CookieNames |->
                    IF name = "OptanonConsent" THEN [present |-> TRUE, value |-> body]
                    ELSE NoCookie]
EmptyJar == [name \in CookieNames |-> NoCookie]
AllJars == {EmptyJar} \cup {JarWith(b) : b \in RawBodies}
CoreJars == {EmptyJar,
             JarWith(<<"interactionCount", "=", "1", "&", "landingPath", "=", "p", "&",
                       "groups", "=", "1", ":", "1", "%2C", "2", ":", "1">>),
             JarWith(<<"k", "=", "v">>)}

InjectorInputs ==
    (AllDoms \X CoreJars \X BOOLEAN) \cup (CoreDoms \X AllJars \X BOOLEAN)

\* documents: HTML > (HEAD, BODY > ...), the elements numbered in document order
Plain(parent, tag, id) ==
    [parent |-> parent, tagName |-> tag, id |-> id, onclick |-> FALSE, cursor |-> "auto"]
Skeletons ==
    {<<Plain(0, "HTML", h), Plain(1, "HEAD", <<>>), Plain(1, "BODY", b)>> :
        h \in {<<>>}, b \in {<<>>, <<"root">>}}
NodeKinds ==
    {[tagName |-> "DIV", id |-> <<>>, onclick |-> FALSE, cursor |-> "auto"],
     [tagName |-> "DIV", id |-> <<"root">>, onclick |-> FALSE, cursor |-> "auto"],
     [tagName |-> "DIV", id |-> <<>>, onclick |-> TRUE, cursor |-> "auto"],
     [tagName |-> "BUTTON", id |-> <<>>, onclick |-> FALSE, cursor |-> "pointer"],
     [tagName |-> "A", id |-> <<"x">>, onclick |-> FALSE, cursor |-> "auto"],
     [tagName |-> "BUTTON", id |-> <<"1">>, onclick |-> TRUE, cursor |-> "auto"]}

RECURSIVE IsAncestorOrSelf(_, _, _)
IsAncestorOrSelf(d, a, el) ==
    IF el = 0 THEN FALSE ELSE el = a \/ IsAncestorOrSelf(d, a, d[el].parent)

\* where the next element in document order can hang: the last element, or one
\* of its ancestors down from BODY
OpenElements(d) == {i \in 3..Len(d) : IsAncestorOrSelf(d, i, Len(d))}

\* a skeleton with n more elements below its BODY, their parents ps, their kinds ks
Page(s, n, ps, ks) ==
    s \o [i \in 1..n |-> [parent |-> ps[i], tagName |-> ks[i].tagName, id |-> ks[i].id,
                          onclick |-> ks[i].onclick, cursor |-> ks[i].cursor]]
\* the numbering of a page's elements is document order
IsPage(d) == \A i \in 4..Len(d) : d[i].parent \in OpenElements(SubSeq(d, 1, i - 1))
\* the parents n elements below BODY can have
ParentVectors(n) ==
    {ps \in [1..n -> 3..(n + 2)] :
        \A s \in Skeletons, k \in NodeKinds : IsPage(Page(s, n, ps, [i \in 1..n |-> k]))}

\* crawl directories
Prefix(p) == 0..(p - 1)
SideFiles == {Prefix(p) \cup (g..(NumIdx - 1)) : p \in 0..NumIdx, g \in 1..NumIdx}
RichClickstreams == {[all |-> a, no |-> n] : a \in SideFiles, n \in SideFiles}
SmallClickstreams ==
    {[all |-> Prefix(5), no |-> Prefix(5)],
     [all |-> Prefix(7), no |-> Prefix(8)],
     [all |-> {}, no |-> Prefix(3)],
     [all |-> {0, 2, 3}, no |-> Prefix(4)]}
Websites ==
    {[name |-> "w", clickstreams |-> <<c>>] : c \in RichClickstreams}
    \cup {[name |-> "w", clickstreams |-> cs] :
            cs \in UNION {[1..n -> SmallClickstreams] : n \in 0..MaxClickstreams}}
\* rows of the websites aggregated before this one
PriorRows == {<<>>, <<[website |-> "v", website_similarity |-> [num |-> 1, den |-> 2],
                       sample_size |-> 3]>>}

(***************************************************************************)
(* Specifications.                                                         *)
(***************************************************************************)
\* the script's variables before it has run
NotRun == [null |-> FALSE, obj |-> EmptyObject]

InjectorOff ==
    /\ elements = <<>>
    /\ cookieJar = EmptyJar
    /\ OneTrust = FALSE
    /\ injectorPc = "off"
    /\ OptanonConsent = Undefined
    /\ CookieGroupIDs = NotRun
    /\ outcome = "none"
    /\ msg = ""
    /\ warnings = <<>>
    /\ groupsObject = EmptyObject
    /\ OptanonConsentObject = EmptyObject
    /\ cookieWrites = <<>>

LocatorOff ==
    /\ dom = <<>>
    /\ windowDebug = "undefined"
    /\ locatorPc = "off"
    /\ locatorScript = "none"
    /\ locatorOutcome = "none"
    /\ selectors = <<>>

AggregateOff ==
    /\ website = [name |-> "w", clickstreams |-> <<>>]
    /\ aggPc = "off"
    /\ csIndex = 0
    /\ iter = 0
    /\ total_actions = 0
    /\ clickstream_sum = 0
    /\ compared = {}
    /\ perClickstream = <<>>
    /\ sample_size = 0
    /\ total_clickstreams = 0
    /\ website_sum = Zero
    /\ rows_list = <<>>

\* a page with its consent cookie, before onetrust.js is injected
InitInjector ==
    /\ \E in \in InjectorInputs :
          /\ elements = in[1]
          /\ cookieJar = in[2]
          /\ OneTrust = in[3]
    /\ injectorPc = "ready"
    /\ OptanonConsent = Undefined
    /\ CookieGroupIDs = NotRun
    /\ outcome = "none"
    /\ msg = ""
    /\ warnings = <<>>
    /\ groupsObject = EmptyObject
    /\ OptanonConsentObject = EmptyObject
    /\ cookieWrites = <<>>
    /\ LocatorOff
    /\ AggregateOff

\* a page before clickable-elements.js is injected
InitLocator ==
    /\ \E s \in Skeletons, n \in 0..MaxContent :
          \E ps \in ParentVectors(n), ks \in [1..n -> NodeKinds] :
              dom = Page(s, n, ps, ks)
    /\ windowDebug \in {"undefined", "falsy", "truthy"}
    /\ locatorPc = "ready"
    /\ locatorScript = "none"
    /\ locatorOutcome = "none"
    /\ selectors = <<>>
    /\ InjectorOff
    /\ AggregateOff

\* the aggregation cell as its outer loop takes a website
InitAggregate ==
    /\ website \in Websites
    /\ aggPc = "website"
    /\ csIndex = 0
    /\ iter = 0
    /\ total_actions = 0
    /\ clickstream_sum = 0
    /\ compared = {}
    /\ perClickstream = <<>>
    /\ sample_size = 0
    /\ total_clickstreams = 0
    /\ website_sum = Zero
    /\ rows_list \in PriorRows
    /\ InjectorOff
    /\ LocatorOff

NextInjector == RunOnetrust
NextLocator == RunClickableElements \/ RunClickableElementsPart000
NextAggregate == StartWebsite \/ StartClickstream \/ CompareStep \/ FinishClickstream \/ EmitRow

SpecInjector == InitInjector /\ [][NextInjector]_vars
SpecLocator == InitLocator /\ [][NextLocator]_vars
SpecAggregate == InitAggregate /\ [][NextAggregate]_vars

Init == InitInjector \/ InitLocator \/ InitAggregate
Next == NextInjector \/ NextLocator \/ NextAggregate
Spec == Init /\ [][Next]_vars

(***************************************************************************)
(* The properties, claim by claim.                                         *)
(***************************************************************************)
\* the category id an element's id attribute carries after the prefix
CategoryId(element) == SubSeq(element.id, 2, Len(element.id))

\* the page binds one category id to two different labels
HasConflict(els) ==
    \E i, j \in 1..Len(els) :
        CategoryId(els[i]) = CategoryId(els[j]) /\ els[i].innerText # els[j].innerText

SetsConsentCookie(w) == w.op = "set" /\ w.name = "OptanonConsent"

\* C1: whenever the page binds one category id to two different labels, a run of
\* the injector is fail-closed: the conflict is what the run reports, no decision
\* mapping is produced, and no rewritten OptanonConsent cookie is committed.
C1_ConflictFailsClosed ==
    (injectorPc = "done" /\ HasConflict(elements)) =>
        /\ \E i \in 1..Len(warnings) : warnings[i] = MsgConflict
        /\ groupsObject = EmptyObject
        /\ \A i \in 1..Len(cookieWrites) : ~SetsConsentCookie(cookieWrites[i])

\* C1, the state the claim is about: a run on a page with a conflict that has
\* committed a consent cookie whose groups field is the empty string
C1_ConflictCommitted ==
    /\ injectorPc = "done"
    /\ HasConflict(elements)
    /\ outcome = "completed"
    /\ cookieJar["OptanonConsent"].present
    /\ Get(decodeString(CookiesGet(cookieJar, "OptanonConsent").s), <<"groups">>) = Str(<<>>)

\* the full id -> label mapping of a page without a conflict
IsFullMapping(obj, els) ==
    /\ Keys(obj) = {CategoryId(els[i]) : i \in 1..Len(els)}
    /\ Len(obj) = Cardinality(Keys(obj))
    /\ \A i \in 1..Len(els) : Get(obj, CategoryId(els[i])) = Str(els[i].innerText)

\* C2: in whatever order the header elements are discovered, getCookieGroupIDs
\* returns null if and only if some category id occurs with two non-equal labels,
\* and otherwise the full id -> label mapping.
C2_NullIffConflict ==
    injectorPc = "done" =>
        /\ CookieGroupIDs.null <=> HasConflict(elements)
        /\ ~CookieGroupIDs.null => IsFullMapping(CookieGroupIDs.obj, elements)

\* C2, for the category ids that name no property a plain object inherits: the
\* result is decided by the conflict alone, in every order of discovery
C2_NullIffConflictOwnIds ==
    (injectorPc = "done"
     /\ \A i \in 1..Len(elements) : CategoryId(elements[i]) \notin ObjectPrototypeKeys) =>
        /\ CookieGroupIDs.null <=> HasConflict(elements)
        /\ ~CookieGroupIDs.null => IsFullMapping(CookieGroupIDs.obj, elements)

\* C2, the state the claim is about: one id discovered with the labels A, B, A
C2_DiscoveredABA ==
    /\ injectorPc = "done"
    /\ Len(elements) = 3
    /\ CategoryId(elements[1]) = CategoryId(elements[2])
    /\ CategoryId(elements[2]) = CategoryId(elements[3])
    /\ elements[1].innerText = elements[3].innerText
    /\ elements[1].innerText # elements[2].innerText
    /\ CookieGroupIDs.null

\* C3: with the consent cookie absent, or window.OneTrust absent, a run ends
\* normally, never by a raised exception, and reports the cause it met.
C3_SoftFailure ==
    (injectorPc = "done" /\ (OptanonConsent.t = "undefined" \/ ~OneTrust)) =>
        /\ outcome = "completed"
        /\ OptanonConsent.t = "undefined" => \E i \in 1..Len(warnings) : warnings[i] = MsgNoCookie
        /\ ~OneTrust => \E i \in 1..Len(warnings) : warnings[i] = MsgNoApi

\* C3, the state the claim is about: a run on a page without the consent cookie
\* has written its warning and ended by the TypeError of decodeString(undefined)
C3_RaisedNoCookie ==
    /\ injectorPc = "done"
    /\ OptanonConsent.t = "undefined"
    /\ OneTrust
    /\ warnings = <<MsgNoCookie>>
    /\ outcome = "TypeError"
    /\ cookieWrites = <<>>

\* a label is a tracking label: lowercased, it contains one of track, target,
\* advert, or one of its words (the maximal runs without a blank) is ad or ads
IsWordAt(l, i, j) ==
    /\ (i = 1 \/ l[i - 1] = " ")
    /\ (j = Len(l) \/ l[j + 1] = " ")
    /\ \A h \in i..j : l[h] # " "
TrackingLabel(label) ==
    LET l == toLowerCase(label)
    IN  \/ \E i \in 1..Len(l), j \in 1..Len(l) :
              /\ i <= j
              /\ SubSeq(l, i, j) \in {<<"t", "r", "a", "c", "k">>, <<"t", "a", "r", "g", "e", "t">>,
                                      <<"a", "d", "v", "e", "r", "t">>}
        \/ \E i \in 1..Len(l), j \in 1..Len(l) :
              /\ i <= j
              /\ IsWordAt(l, i, j)
              /\ SubSeq(l, i, j) \in {<<"a", "d">>, <<"a", "d", "s">>}

\* C4: for every mapping getCookieGroupIDs returns, the decision mapping has
\* exactly one entry per category id, 0 if the id's label is a tracking label and
\* 1 otherwise.
C4_DecisionMapping ==
    (injectorPc = "done" /\ OptanonConsent.t = "string" /\ ~CookieGroupIDs.null) =>
        /\ Keys(groupsObject) = {CategoryId(elements[i]) : i \in 1..Len(elements)}
        /\ Len(groupsObject) = Cardinality(Keys(groupsObject))
        /\ \A i \in 1..Len(elements) :
              Get(groupsObject, CategoryId(elements[i])) =
                  IF TrackingLabel(elements[i].innerText) THEN Num(0) ELSE Num(1)

\* C4, the example: {1: Strictly Necessary Cookies, 2: Targeting Cookies} gives {1: 1, 2: 0}
C4_Example ==
    /\ injectorPc = "done"
    /\ CookieGroupIDs.obj = <<[k |-> <<"1">>, v |-> Str(L_StrictlyNecessary)],
                              [k |-> <<"2">>, v |-> Str(L_Targeting)]>>
    /\ groupsObject = <<[k |-> <<"1">>, v |-> Num(1)], [k |-> <<"2">>, v |-> Num(0)]>>

\* C4, a label with ad inside a longer word and nothing of the corpus is enabled
C4_AdInsideWord ==
    /\ injectorPc = "done"
    /\ elements = <<HeaderElement(<<"1">>, L_Loading)>>
    /\ groupsObject = <<[k |-> <<"1">>, v |-> Num(1)]>>

\* the consent cookie as the page reads it back after the run
Committed == decodeString(CookiesGet(cookieJar, "OptanonConsent").s)
\* the interactionCount of the cookie the run read: 0 when it has none
PreviousCount ==
    LET v == Get(decodeString(OptanonConsent.s), <<"interactionCount">>)
    IN  IF v.t = "string" /\ parseInt(v).t = "number" THEN parseInt(v).n ELSE 0
\* the cookie the run read has no interactionCount, or a decimal number
CountAbsentOrDecimal ==
    LET o == decodeString(OptanonConsent.s)
        v == Get(o, <<"interactionCount">>)
    IN  \/ ~HasOwn(o, <<"interactionCount">>)
        \/ v.t = "string" /\ Len(v.s) > 0 /\ \A i \in 1..Len(v.s) : IsDigit(v.s[i])

\* C5: after a successful run the committed cookie's groups field is the encoded
\* decision mapping, its interactionCount the previous one plus one, as a number,
\* also when the previous cookie had none, and its landingPath NotLandingPage.
C5_CommittedFields ==
    (injectorPc = "done" /\ outcome = "completed" /\ ~CookieGroupIDs.null
     /\ CountAbsentOrDecimal) =>
        /\ Get(Committed, <<"groups">>) = Str(encodeGroups(groupsObject))
        /\ Get(Committed, <<"interactionCount">>) = Str(NatToDigits(PreviousCount + 1))
        /\ Get(Committed, <<"landingPath">>) = Str(<<"NotLandingPage">>)

\* C5, where the cookie read has a decimal interactionCount: the three fields are
\* as the claim says
C5_CommittedFieldsCounted ==
    (injectorPc = "done" /\ outcome = "completed" /\ ~CookieGroupIDs.null
     /\ CountAbsentOrDecimal /\ HasOwn(decodeString(OptanonConsent.s), <<"interactionCount">>)) =>
        /\ Get(Committed, <<"groups">>) = Str(encodeGroups(groupsObject))
        /\ Get(Committed, <<"interactionCount">>) = Str(NatToDigits(PreviousCount + 1))
        /\ Get(Committed, <<"landingPath">>) = Str(<<"NotLandingPage">>)

\* C5, the state the claim is about: a successful run on a cookie without an
\* interactionCount has committed interactionCount=NaN
C5_CommittedNaN ==
    /\ injectorPc = "done"
    /\ outcome = "completed"
    /\ ~CookieGroupIDs.null
    /\ ~HasOwn(decodeString(OptanonConsent.s), <<"interactionCount">>)
    /\ Get(Committed, <<"interactionCount">>) = Str(<<"NaN">>)

\* C6: decoding and encoding are inverse: encodeObject(decodeString(s)) = s for
\* the cookie body s the run read, and decodeString(encodeObject(obj)) = obj for
\* the body object obj the run built.
C6_RoundTrip ==
    (injectorPc = "done" /\ OptanonConsent.t = "string") =>
        /\ encodeObject(decodeString(OptanonConsent.s)) = OptanonConsent.s
        /\ decodeString(encodeObject(OptanonConsentObject)) = OptanonConsentObject

\* C6, the state the claim is about: the run read a body with a value holding "="
C6_ValueWithEquals ==
    /\ injectorPc = "done"
    /\ OptanonConsent = Str(<<"k", "=", "v", "=", "w">>)
    /\ encodeObject(decodeString(OptanonConsent.s)) = <<"k", "=", "v">>

\* the self-or-ancestors of el that have an id
IdAncestors(d, el) == {a \in 1..Len(d) : IsAncestorOrSelf(d, a, el) /\ d[a].id # <<>>}
\* the nearest of them: every other one is above it
Anchor(d, el) ==
    CHOOSE a \in IdAncestors(d, el) : \A b \in IdAncestors(d, el) : IsAncestorOrSelf(d, b, a)
\* the 1-based position of el among its parent's element children
ChildPosition(d, el) == Cardinality({j \in 1..Len(d) : d[j].parent = d[el].parent /\ j <= el})

RECURSIVE AnchoredPath(_, _, _)
\* '#<id>' of the anchor a, then ' > <TAG>:nth-child(k)' for every element from
\* below a down to el
AnchoredPath(d, a, el) ==
    IF el = a THEN <<"#">> \o d[a].id
    ELSE AnchoredPath(d, a, d[el].parent)
         \o <<" > ", d[el].tagName, ":nth-child(">> \o NatToDigits(ChildPosition(d, el)) \o <<")">>

\* C7: for an element with an id on itself or an ancestor, fullPath is '#<id>' of
\* the nearest such element, nothing for what is above it, and
\* '<TAG>:nth-child(k)' for every element below it down to the element, the
\* segments joined root-to-leaf by ' > '; the selectors a run returns are these.
C7_AnchoredPath ==
    /\ \A el \in 1..Len(dom) :
          IdAncestors(dom, el) # {} => fullPath(dom, el) = AnchoredPath(dom, Anchor(dom, el), el)
    /\ locatorOutcome = "returned" =>
          /\ Len(selectors) = Len(Items(dom))
          /\ \A i \in 1..Len(selectors) :
                LET el == Items(dom)[i].element
                IN  IdAncestors(dom, el) # {} =>
                        selectors[i] = AnchoredPath(dom, Anchor(dom, el), el)

\* C7, the example: two DIVs without an id, children of the element with id
\* root, get '#root > DIV:nth-child(1)' and '#root > DIV:nth-child(2)'
C7_Example ==
    /\ locatorOutcome = "returned"
    /\ \E i, j \in 1..Len(selectors) :
          /\ selectors[i] = <<"#", "root", " > ", "DIV", ":nth-child(", "1", ")">>
          /\ selectors[j] = <<"#", "root", " > ", "DIV", ":nth-child(", "2", ")">>
          /\ dom[Items(dom)[i].element].parent = dom[Items(dom)[j].element].parent
          /\ dom[dom[Items(dom)[i].element].parent].id = <<"root">>

\* the type of an element by the ordered rule, the first match winning
Classify(element) ==
    IF element.tagName = "BUTTON" THEN "button"
    ELSE IF element.tagName = "A" THEN "link"
    ELSE IF element.onclick THEN "onclick"
    ELSE IF element.cursor = "pointer" THEN "pointer"
    ELSE "excluded"

\* C8: a run of the Element Locator returns one entry for each element that one
\* of the four predicates matches and none for any other, and the entry carries
\* the element's type by the ordered rule.
C8_TypedEntries ==
    locatorPc = "done" =>
        /\ locatorOutcome = "returned"
        /\ Len(selectors) = Cardinality({el \in 1..Len(dom) : Classify(dom[el]) # "excluded"})
        /\ \A i \in 1..Len(Items(dom)) :
              /\ "type" \in DOMAIN Items(dom)[i]
              /\ Items(dom)[i].type = Classify(dom[Items(dom)[i].element])

\* C8, what a run that returns does return: the selectors, and nothing else, of
\* exactly the elements the ordered rule does not exclude, in document order
C8_SelectorsOfMatching ==
    locatorOutcome = "returned" =>
        /\ \A el \in 1..Len(dom) : include(dom[el]) <=> Classify(dom[el]) # "excluded"
        /\ Len(selectors) = Cardinality({el \in 1..Len(dom) : Classify(dom[el]) # "excluded"})
        /\ \A i \in 1..Len(selectors) :
              /\ selectors[i] = fullPath(dom, Items(dom)[i].element)
              /\ \A j \in 1..Len(selectors) :
                    i < j => Items(dom)[i].element < Items(dom)[j].element

\* C8, the state the claim is about: clickable-elements.js has ended on the read
\* of debug, on a page with a button
C8_Threw ==
    /\ locatorPc = "done"
    /\ locatorScript = "clickable-elements.js"
    /\ locatorOutcome = "ReferenceError"
    /\ \E el \in 1..Len(dom) : dom[el].tagName = "BUTTON"
    /\ selectors = <<>>

\* the length of the longest prefix of 0, 1, 2, ..., capped at 10, at which both
\* screenshots exist
PairedPrefix(c) ==
    CHOOSE k \in 0..RangeLimit :
        /\ \A j \in 0..(k - 1) : j \in c.all /\ j \in c.no
        /\ k = RangeLimit \/ k \notin c.all \/ k \notin c.no

\* C9: total_actions is the length of the longest prefix of action indices,
\* capped at 10, at which both screenshots exist; the pairs compared are those of
\* that prefix and no other, and no score enters the sum without a compared pair.
C9_TotalActionsIsPrefix ==
    /\ aggPc \in {"compare", "finish"} =>
          /\ compared = 0..(total_actions - 1)
          /\ total_actions <= PairedPrefix(website.clickstreams[csIndex])
          /\ \A i \in compared : i \in website.clickstreams[csIndex].all
                                 /\ i \in website.clickstreams[csIndex].no
          /\ clickstream_sum <= Cardinality(compared)
    /\ aggPc = "finish" => total_actions = PairedPrefix(website.clickstreams[csIndex])
    /\ \A i \in 1..Len(perClickstream) :
          perClickstream[i].total_actions = PairedPrefix(website.clickstreams[i])

\* C9, the state the claim is about: the walk has stopped at a gap and both
\* screenshots exist at a later index
C9_PairAfterGap ==
    /\ aggPc = "finish"
    /\ total_actions = 2
    /\ \E j \in 3..(RangeLimit - 1) :
          /\ j \in website.clickstreams[csIndex].all
          /\ j \in website.clickstreams[csIndex].no
          /\ j \notin compared

\* C9, the cap: ten pairs counted and both screenshots of index 10 exist
C9_Capped ==
    /\ aggPc = "finish"
    /\ total_actions = RangeLimit
    /\ RangeLimit \in website.clickstreams[csIndex].all
    /\ RangeLimit \in website.clickstreams[csIndex].no

RECURSIVE SumOfPrefixes(_, _)
\* the sum of PairedPrefix over the first n clickstreams
SumOfPrefixes(cs, n) ==
    IF n = 0 THEN 0 ELSE SumOfPrefixes(cs, n - 1) + PairedPrefix(cs[n])

RECURSIVE SumOfTotals(_, _)
\* the sum of the total_actions the first n finished clickstreams ended with
SumOfTotals(done, n) ==
    IF n = 0 THEN 0 ELSE SumOfTotals(done, n - 1) + done[n].total_actions

\* the aggregation has appended the website's row
RowEmitted ==
    /\ aggPc = "done"
    /\ Len(rows_list) > 0
    /\ rows_list[Len(rows_list)].website = website.name

\* C10: the sample_size emitted for a website is the sum of total_actions over all
\* of its clickstreams, those with none included.
C10_SampleSizeIsSum ==
    /\ aggPc = "clickstream" =>
          /\ Len(perClickstream) = csIndex
          /\ sample_size = SumOfTotals(perClickstream, csIndex)
          /\ sample_size = SumOfPrefixes(website.clickstreams, csIndex)
    /\ RowEmitted =>
          /\ Len(perClickstream) = Len(website.clickstreams)
          /\ rows_list[Len(rows_list)].sample_size =
                SumOfTotals(perClickstream, Len(perClickstream))
          /\ rows_list[Len(rows_list)].sample_size =
                SumOfPrefixes(website.clickstreams, Len(website.clickstreams))

\* C10, the example: total_actions 5, 0, 7 give sample_size 12
C10_Example ==
    /\ RowEmitted
    /\ [i \in 1..Len(perClickstream) |-> perClickstream[i].total_actions] = <<5, 0, 7>>
    /\ rows_list[Len(rows_list)].sample_size = 12


\* the clickstreams among the first n finished ones that compared a pair
Comparable(done, n) == {i \in 1..n : done[i].total_actions >= 1}

RECURSIVE MeansDen(_, _)
\* a common denominator of the clickstream means: the product of their total_actions
MeansDen(done, n) ==
    IF n = 0 THEN 1
    ELSE IF done[n].total_actions >= 1 THEN MeansDen(done, n - 1) * done[n].total_actions
    ELSE MeansDen(done, n - 1)

RECURSIVE MeansNum(_, _)
\* the sum of the clickstream means clickstream_sum / total_actions, over that denominator
MeansNum(done, n) ==
    IF n = 0 THEN 0
    ELSE IF done[n].total_actions >= 1
         THEN MeansNum(done, n - 1) * done[n].total_actions
              + done[n].clickstream_sum * MeansDen(done, n - 1)
    ELSE MeansNum(done, n - 1)

\* C11: the website_similarity of an emitted row is the arithmetic mean, over
\* exactly the clickstreams with total_actions >= 1, of clickstream_sum /
\* total_actions, the clickstream_sum being the sum of the scores of the pairs
\* compared; a clickstream without a compared pair enters neither the sum nor the
\* count.
C11_MeanOfMeans ==
    /\ aggPc \in {"compare", "finish"} => clickstream_sum \in 0..Cardinality(compared)
    /\ aggPc = "clickstream" =>
          /\ total_clickstreams = Cardinality(Comparable(perClickstream, Len(perClickstream)))
          /\ website_sum.den >= 1
          /\ website_sum.num * MeansDen(perClickstream, Len(perClickstream))
                = website_sum.den * MeansNum(perClickstream, Len(perClickstream))
    /\ RowEmitted =>
          LET row == rows_list[Len(rows_list)]
              n == Len(perClickstream)
          IN  /\ row.website_similarity.den >= 1
              /\ row.website_similarity.num * MeansDen(perClickstream, n)
                    * Cardinality(Comparable(perClickstream, n))
                    = row.website_similarity.den * MeansNum(perClickstream, n)

\* C11, the state the claim is about: clickstreams with 5, 0 and 7 compared pairs
\* and score sums 2, 0 and 7 give (2/5 + 7/7) / 2 = 7/10
C11_Example ==
    /\ RowEmitted
    /\ [i \in 1..Len(perClickstream) |-> perClickstream[i].total_actions] = <<5, 0, 7>>
    /\ [i \in 1..Len(perClickstream) |-> perClickstream[i].clickstream_sum] = <<2, 0, 7>>
    /\ rows_list[Len(rows_list)].website_similarity = [num |-> 7, den |-> 10]

\* the rows of rows_list that are the website's
RowsOf(name) == {i \in 1..Len(rows_list) : rows_list[i].website = name}

\* C12: when the aggregation of a website has ended, rows_list holds exactly one
\* row of it if its sample_size is at least 1 and none otherwise; no row has
\* sample_size 0.
C12_RowIffSampled ==
    /\ aggPc = "done" =>
          /\ sample_size >= 1 => Cardinality(RowsOf(website.name)) = 1
          /\ sample_size = 0 => RowsOf(website.name) = {}
    /\ aggPc # "done" => RowsOf(website.name) = {}
    /\ \A i \in 1..Len(rows_list) : rows_list[i].sample_size >= 1

\* C12, the state the claim is about: a website whose clickstreams all have no
\* comparable action has been aggregated and has no row
C12_NoRow ==
    /\ aggPc = "done"
    /\ Len(website.clickstreams) >= 2
    /\ sample_size = 0
    /\ RowsOf(website.name) = {}

\* C12, the other side: a website with one comparable action has its row
C12_OneRow ==
    /\ aggPc = "done"
    /\ sample_size = 1
    /\ Cardinality(RowsOf(website.name)) = 1

\* the position of the first "=" of a key=value pair, 0 when it has none
FirstEquals(pair) ==
    IF \A i \in 1..Len(pair) : pair[i] # "=" THEN 0
    ELSE CHOOSE i \in 1..Len(pair) : pair[i] = "=" /\ \A h \in 1..(i - 1) : pair[h] # "="

\* the field of a pair: its key is what stands before the first "=", its value
\* all that follows it
FieldOf(pair) ==
    IF FirstEquals(pair) = 0 THEN [k |-> pair, v |-> Undefined]
    ELSE [k |-> SubSeq(pair, 1, FirstEquals(pair) - 1),
          v |-> Str(SubSeq(pair, FirstEquals(pair) + 1, Len(pair)))]

\* the fields of an ampersand-joined cookie body
FieldsOf(body) == {FieldOf(Split(body, "&")[i]) : i \in 1..Len(Split(body, "&"))}

\* the fields the run rewrites
Rewritten == {<<"groups">>, <<"interactionCount">>, <<"landingPath">>}
OtherFields(body) == {f \in FieldsOf(body) : f.k \notin Rewritten}

\* the run read a cookie, met no conflict and committed the rewritten cookie
Successful ==
    /\ injectorPc = "done"
    /\ outcome = "completed"
    /\ ~CookieGroupIDs.null

\* C13: after a successful run the committed cookie, as Cookies.get reads it, has
\* every field of the cookie the run read other than groups, interactionCount and
\* landingPath with its key and value, and no other such field.
C13_OtherFieldsKept ==
    Successful =>
        OtherFields(CookiesGet(cookieJar, "OptanonConsent").s) = OtherFields(OptanonConsent.s)

\* every pair of the body has exactly one "=", and no key occurs twice
PlainBody(body) ==
    LET pairs == Split(body, "&")
    IN  /\ \A i \in 1..Len(pairs) :
              Cardinality({h \in 1..Len(pairs[i]) : pairs[i][h] = "="}) = 1
        /\ \A i, j \in 1..Len(pairs) : FieldOf(pairs[i]).k = FieldOf(pairs[j]).k => i = j

\* C13, for a body whose pairs have one "=" each and distinct keys: the other
\* fields are kept as they were
C13_OtherFieldsKeptPlain ==
    (Successful /\ PlainBody(OptanonConsent.s)) =>
        OtherFields(CookiesGet(cookieJar, "OptanonConsent").s) = OtherFields(OptanonConsent.s)

\* C13, the state the claim is about: the cookie read had k with the value v=w,
\* and the committed cookie has k with the value v
C13_ValueCut ==
    /\ Successful
    /\ [k |-> <<"k">>, v |-> Str(<<"v", "=", "w">>)] \in FieldsOf(OptanonConsent.s)
    /\ [k |-> <<"k">>, v |-> Str(<<"v">>)]
          \in FieldsOf(CookiesGet(cookieJar, "OptanonConsent").s)
    /\ [k |-> <<"k">>, v |-> Str(<<"v", "=", "w">>)]
          \notin FieldsOf(CookiesGet(cookieJar, "OptanonConsent").s)

\* C14: a run on a page without the consent cookie, or without window.OneTrust,
\* makes no Cookies.remove and no Cookies.set call and leaves document.cookie as
\* it was.
C14_NoCookieWrite ==
    [][(injectorPc = "ready" /\ (~cookieJar["OptanonConsent"].present \/ ~OneTrust)) =>
          /\ cookieJar' = cookieJar
          /\ cookieWrites' = <<>>]_vars

\* C14, the state the claim is about: a run on a page with the cookie and without
\* window.OneTrust has ended at line 194, the cookie still as stored and no
\* OptanonAlertBoxClosed set
C14_StoppedBeforeWrites ==
    /\ injectorPc = "done"
    /\ ~OneTrust
    /\ OptanonConsent.t = "string"
    /\ outcome = "ReferenceError"
    /\ OptanonConsentObject # EmptyObject
    /\ cookieWrites = <<>>
    /\ CookiesGet(cookieJar, "OptanonConsent") = OptanonConsent
    /\ ~cookieJar["OptanonAlertBoxClosed"].present

\* no two elements of the document have the same id
UniqueIds(d) == \A i, j \in 1..Len(d) : (d[i].id # <<>> /\ d[i].id = d[j].id) => i = j

\* the tokens that end a CSS identifier or cannot stand in one
CssDelimiters == {"#", ".", ":", " ", " > ", ">", "+", "~", ",", "[", "]", "(", ")",
                  ":nth-child(", "\"", "'", "*", "=", "/"}
\* a name that a CSS id selector can be written with as it stands: not empty, not
\* starting with a digit, no delimiter in it
IsCssIdent(name) ==
    /\ Len(name) >= 1
    /\ ~IsDigit(name[1])
    /\ \A i \in 1..Len(name) : name[i] \notin CssDelimiters

\* a compound selector of a path is '#<ident>', '<TAG>' or '<TAG>:nth-child(<k>)'
IsIdSegment(seg) == Len(seg) >= 2 /\ seg[1] = "#" /\ IsCssIdent(Tail(seg))
IsTagSegment(seg) == Len(seg) = 1 /\ IsCssIdent(seg)
IsNthSegment(seg) ==
    /\ Len(seg) >= 4
    /\ IsCssIdent(<<seg[1]>>)
    /\ seg[2] = ":nth-child("
    /\ seg[Len(seg)] = ")"
    /\ \A i \in 3..(Len(seg) - 1) : IsDigit(seg[i])
IsSegment(seg) == IsIdSegment(seg) \/ IsTagSegment(seg) \/ IsNthSegment(seg)

\* the element el of d matches the compound selector seg
MatchesSegment(d, el, seg) ==
    IF IsIdSegment(seg) THEN d[el].id = Tail(seg)
    ELSE IF IsTagSegment(seg) THEN d[el].tagName = seg[1]
    ELSE /\ IsNthSegment(seg)
         /\ d[el].tagName = seg[1]
         /\ ChildPosition(d, el) = DigitsToNat(SubSeq(seg, 3, Len(seg) - 1))

RECURSIVE MatchesPath(_, _, _, _)
\* el matches the first n compound selectors of segs joined by the child combinator
MatchesPath(d, el, segs, n) ==
    /\ MatchesSegment(d, el, segs[n])
    /\ n = 1 \/ (d[el].parent # 0 /\ MatchesPath(d, d[el].parent, segs, n - 1))

\* document.querySelectorAll(selector): the elements a child-combinator path
\* matches; a path that is no selector matches none
Resolve(d, selector) ==
    LET segs == Split(selector, " > ")
    IN  IF \A i \in 1..Len(segs) : IsSegment(segs[i])
        THEN {el \in 1..Len(d) : MatchesPath(d, el, segs, Len(segs))}
        ELSE {}

\* C15: on a document whose ids are unique, no two elements have the same
\* fullPath, and the fullPath of an element, read as a CSS selector, matches that
\* element and no other; so for the selectors a run returns.
C15_InjectiveResolving ==
    UniqueIds(dom) =>
        /\ \A e1, e2 \in 1..Len(dom) : fullPath(dom, e1) = fullPath(dom, e2) => e1 = e2
        /\ \A el \in 1..Len(dom) : Resolve(dom, fullPath(dom, el)) = {el}
        /\ locatorOutcome = "returned" =>
              \A i \in 1..Len(selectors) : Resolve(dom, selectors[i]) = {Items(dom)[i].element}

\* C15, for ids that are CSS identifiers: injective and self-resolving; and
\* injective for unique ids of any form
C15_InjectiveResolvingIdent ==
    UniqueIds(dom) =>
        /\ \A e1, e2 \in 1..Len(dom) : fullPath(dom, e1) = fullPath(dom, e2) => e1 = e2
        /\ (\A el \in 1..Len(dom) : dom[el].id # <<>> => IsCssIdent(dom[el].id)) =>
              /\ \A el \in 1..Len(dom) : Resolve(dom, fullPath(dom, el)) = {el}
              /\ locatorOutcome = "returned" =>
                    \A i \in 1..Len(selectors) :
                        Resolve(dom, selectors[i]) = {Items(dom)[i].element}

\* C15, the state the claim is about: on a document with unique ids a run has
\* returned '#1' for the button with id 1, and '#1' matches no element
C15_Unresolved ==
    /\ locatorOutcome = "returned"
    /\ UniqueIds(dom)
    /\ \E i \in 1..Len(selectors) :
          /\ selectors[i] = <<"#", "1">>
          /\ dom[Items(dom)[i].element].id = <<"1">>
          /\ Resolve(dom, selectors[i]) = {}

\* C15, with an id on two elements: a run has returned the same selector for two
\* elements
C15_DuplicateIdsCollide ==
    /\ locatorOutcome = "returned"
    /\ ~UniqueIds(dom)
    /\ \E i, j \in 1..Len(selectors) : i # j /\ selectors[i] = selectors[j]

=============================================================================
